---- MODULE Spec2Model ----
(***************************************************************************)
(* Document-analysis subsystem of AI_PDF_project:                          *)
(*   - PDFAnalyzerBase._parse_response      (the Response Parser)          *)
(*   - PDFLLMAnalyzer / PDFMistralAnalyzer  (the two backend analyzers)    *)
(*   - LangGraphPDFAnalyzer                 (the fallback orchestrator)    *)
(*   - DocumentProcessor.process_document   (the upload pipeline)          *)
(* Python None / JSON null is Null; an exception is a record with its      *)
(* class and message; a dict is a record over the five known keys.         *)
(***************************************************************************)
EXTENDS Integers, Sequences, FiniteSets, TLC

VARIABLES
    response_text,  \* parser harness: the raw backend answer handed to _parse_response
    parsed,         \* parser harness: what _parse_response did with it (Null before the call)
    pc,             \* per request: position of process_document
    req,            \* per request: the upload (content_type) and the analyzer in use
    file_path,      \* per request: settings.UPLOAD_ROOT / unique_name (Null before step 2)
    fs,             \* shared: the paths that exist in the upload directory
    db,             \* shared: the committed Document rows
    state,          \* per request: the AnalyzerState of the LangGraph run
    calls,          \* per request: the backend invocations made so far, in order
    inflight,       \* per request: the backends whose call is pending
    results,        \* per request: what each analyzer's analyze_document gave, in order
    text_content,   \* per request: what extract_text_from_pdf gave (Null before step 4)
    analysis,       \* per request: what self.analyzer.analyze_document returned
                    \*   (extracted_data) or raised (Null before the end of step 5)
    pending,        \* per request: the exception being raised while the file is cleaned up
    outcome,        \* per request: what process_document returned or raised (Null while running)
    removed,        \* per request: number of _remove_file calls made
    next_uuid,      \* shared: source of fresh uuid4 values
    settings,       \* shared: app.core.config.settings, fixed when the process starts
    clients,        \* shared: per backend, how many clients have been constructed
    answers,        \* per request: what each backend call ended with, in order
    users,          \* shared: the rows of the users table, the id of a row is its index
    issued,         \* shared: the tokens the application has signed so far
    documents,      \* shared: the rows of the documents table by primary key
    response        \* the answer to the latest request to the auth / documents API

parser_vars == <<response_text, parsed>>
pipeline_vars == <<pc, req, file_path, fs, db, state, calls, inflight, results,
                   text_content, analysis, pending, outcome, removed, next_uuid,
                   settings, clients, answers>>
app_vars == <<users, issued, documents, response>>
vars == <<response_text, parsed, pc, req, file_path, fs, db, state, calls, inflight,
          results, text_content, analysis, pending, outcome, removed, next_uuid,
          settings, clients, answers, users, issued, documents, response>>

\* Number of upload requests the process handles (concurrently).
MaxRuns == 2

Runs == 1..MaxRuns

Null == [t |-> "null"]

(***************************************************************************)
(* Exceptions (app/utils/exceptions.py) and the except-clause test.        *)
(***************************************************************************)
\* The classes an exception of class cls is an instance of.
Bases(cls) ==
    CASE cls = "DocumentAnalysisError" -> {"DocumentAnalysisError", "Exception"}
      [] cls = "DocumentParsingError"  -> {"DocumentParsingError", "DocumentAnalysisError", "Exception"}
      [] cls = "LLMServiceError"       -> {"LLMServiceError", "DocumentAnalysisError", "Exception"}
      [] cls = "CancelledError"        -> {"CancelledError", "BaseException"}
      [] OTHER                         -> {cls, "Exception"}

IsInstance(exc, cls) == cls \in Bases(exc.cls)

Exc(cls, msg) == [cls |-> cls, msg |-> msg]

HTTPException(status_code, detail) ==
    [cls |-> "HTTPException", status_code |-> status_code, detail |-> detail]

HTTP_400_BAD_REQUEST == 400
HTTP_500_INTERNAL_SERVER_ERROR == 500

\* The messages of the source, in ASCII.
MsgNoUsefulInfo   == "document holds no useful information"
MsgBadStructure   == "cannot recognise the structure of the document"
MsgResultError    == "error while processing the analysis result"
MsgOllamaDown     == "could not reach Ollama"
MsgMistralDown    == "could not reach Mistral"
MsgBothDown       == "both LLM services unavailable"
MsgOnlyPdf        == "only PDF files may be uploaded"
MsgSaveError      == "error while saving the file"
MsgExtractError   == "could not extract text from the PDF"
MsgAnalysisError  == "document analysis error"
MsgNoApiKey       == "MISTRAL_API_KEY not defined in .env"

(***************************************************************************)
(* JSON values and the raw answers of a backend.                           *)
(* A raw answer is a sequence of tokens: "WS" (a run of whitespace),       *)
(* the two fence markers, and JSON documents.                              *)
(***************************************************************************)
Absent == [t |-> "absent"]                    \* the key is not in the object
Str(s) == [t |-> "str", v |-> s]
Num(mant, exp) == [t |-> "num", v |-> <<mant, exp>>]   \* the literal mant * 10^exp
Bool(b) == [t |-> "bool", v |-> b]
\* a number literal with a fraction and 16 significant digits, the digits as a
\* string: digits * 10^exp
BigNum(digits, exp) == [t |-> "bignum", digits |-> digits, exp |-> exp]

useful_fields == <<"document_number", "document_date", "sender", "purpose", "amount">>

NumberValues == {Null, Absent, Str("INV-TEST-123")}
TextValues == {Null, Str("text")}
DateValues == {Null, Absent, Str(""), Str("2024-10-29"), Str("2024-01-15T00:00:00"),
               Str("29.10.2024"), Num(0, 0), Num(20241029, 0), Bool(TRUE)}
AmountValues == {Null, Num(1500050, -2), Num(0, 0), Num(100, 0), Str("15000.50"),
                 Str("abc"), Str(""), Bool(TRUE), BigNum("9999999999999999", -2)}

JsonObjects ==
    [t : {"object"}, document_number : NumberValues, document_date : DateValues,
     sender : TextValues, purpose : TextValues, amount : AmountValues]

\* Valid JSON that is not an object, and text that is not JSON at all.
JsonArray == [t |-> "array"]
NotJson == [t |-> "garbage"]
JsonNonObjects == {JsonArray, Num(42, 0), Str("just text"), Bool(TRUE), Null}

JsonDocs == JsonObjects \cup JsonNonObjects \cup {NotJson}

WS == [t |-> "ws"]
FenceJson == [t |-> "fence_json"]   \* three backticks followed by json
Fence == [t |-> "fence"]            \* three backticks
FenceTag == [t |-> "fence_tag"]     \* three backticks followed by another tag (JSON, js)

Wrappings(doc) ==
    { <<doc>>,
      <<WS, doc, WS>>,
      <<FenceJson, WS, doc, WS, Fence>>,
      <<WS, FenceJson, doc, Fence, WS>>,
      <<FenceJson, doc>>,
      <<doc, Fence>>,
      <<Fence, WS, doc, WS, Fence>>,
      <<FenceTag, WS, doc, WS, Fence>> }

RawResponses == UNION { Wrappings(doc) : doc \in JsonDocs } \cup { <<>>, <<WS>> }

(***************************************************************************)
(* PDFAnalyzerBase._parse_response                                         *)
(***************************************************************************)
RECURSIVE LStrip(_)
LStrip(s) == IF s # <<>> /\ Head(s) = WS THEN LStrip(Tail(s)) ELSE s

RECURSIVE RStrip(_)
RStrip(s) == IF s # <<>> /\ s[Len(s)] = WS THEN RStrip(SubSeq(s, 1, Len(s) - 1)) ELSE s

\* str.strip()
Strip(s) == RStrip(LStrip(s))

\* an opening fence that is never removed
StripFenceOpen_keeps(s) == s

\* if response_text.startswith(<fence>json): response_text = response_text[7:]
StripFenceOpen(s) == IF s # <<>> /\ Head(s) = FenceJson THEN Tail(s) ELSE s

\* if response_text.endswith(<fence>): response_text = response_text[:-3]
StripFenceClose(s) == IF s # <<>> /\ s[Len(s)] = Fence THEN SubSeq(s, 1, Len(s) - 1) ELSE s

\* json.loads: whitespace around exactly one JSON document; anything else is a
\* json.JSONDecodeError, reported here as NotJson.
json_loads(s) ==
    LET body == Strip(s)
    IN IF Len(body) = 1 /\ body[1] \notin {FenceJson, Fence, FenceTag, NotJson}
       THEN body[1] ELSE NotJson

\* dict.get(key): None for a missing key
Get(data, field) == IF data[field] = Absent THEN Null ELSE data[field]

\* Python truthiness of a JSON value
Truthy(x) ==
    CASE x.t = "null"   -> FALSE
      [] x.t = "absent" -> FALSE
      [] x.t = "str"    -> x.v # ""
      [] x.t = "num"    -> x.v[1] # 0
      [] x.t = "bool"   -> x.v
      [] OTHER          -> TRUE

\* datetime.fromisoformat: a datetime for an ISO-8601 string, Null for a ValueError
fromisoformat(s) ==
    CASE s = "2024-10-29"          -> [t |-> "datetime", v |-> <<2024, 10, 29, 0, 0, 0>>]
      [] s = "2024-01-15T00:00:00" -> [t |-> "datetime", v |-> <<2024, 1, 15, 0, 0, 0>>]
      [] OTHER                     -> Null

\* str(x) of a parsed JSON number: an int prints as it is, a float in its shortest
\* form, which has no trailing zeros after the first decimal.
RECURSIVE FloatRepr(_, _)
FloatRepr(mant, exp) ==
    IF exp < -1 /\ mant % 10 = 0 THEN FloatRepr(mant \div 10, exp + 1) ELSE <<mant, exp>>

\* the same for a literal of 16 digits: json.loads reads it as the nearest binary
\* float (53 bits of mantissa) and str() prints the shortest decimal that reads
\* back as that float; 99999999999999.99 gives '99999999999999.98'
BigFloatRepr(digits, exp) ==
    CASE digits = "9999999999999999" /\ exp = -2 -> BigNum("9999999999999998", -2)
      [] OTHER -> BigNum(digits, exp)

\* Decimal(str(x)): a Decimal, or Null where the conversion raises
DecimalOfStr(x) ==
    CASE x.t = "num" ->
            [t |-> "Decimal",
             v |-> IF x.v[2] < 0 THEN FloatRepr(x.v[1], x.v[2]) ELSE x.v]
      [] x.t = "bignum" ->
            [t |-> "Decimal", big |-> BigFloatRepr(x.digits, x.exp)]
      [] x.t = "str" /\ x.v = "15000.50" -> [t |-> "Decimal", v |-> <<1500050, -2>>]
      [] OTHER -> Null       \* "abc", "", "True": decimal.InvalidOperation

has_useful_info(data) ==
    \E i \in 1..Len(useful_fields) : Get(data, useful_fields[i]) # Null

ConvertDate(data) ==
    IF Truthy(Get(data, "document_date")) /\ data.document_date.t = "str"
    THEN [data EXCEPT !.document_date = fromisoformat(data.document_date.v)]
    ELSE data

ConvertAmount(data) ==
    IF Get(data, "amount") # Null
    THEN [data EXCEPT !.amount = DecimalOfStr(data.amount)]
    ELSE data

Returned(value) == [ok |-> TRUE, value |-> value]
Raised(exc) == [ok |-> FALSE, exc |-> exc]

\* a _parse_response without the last except clause: the AttributeError of
\* data.get on a value that is not a dict leaves the method as it is
parse_response_no_catch_all(text) ==
    LET stripped == StripFenceClose(StripFenceOpen(Strip(text)))
        data == json_loads(stripped)
    IN  IF data = NotJson
        THEN Raised(Exc("DocumentAnalysisError", MsgBadStructure))
        ELSE IF data.t # "object"
        THEN Raised(Exc("AttributeError", "object has no attribute get"))
        ELSE IF ~has_useful_info(data)
        THEN Raised(Exc("DocumentAnalysisError", MsgNoUsefulInfo))
        ELSE Returned(ConvertAmount(ConvertDate(data)))

parse_response(text) ==
    LET stripped == StripFenceClose(StripFenceOpen(Strip(text)))
        data == json_loads(stripped)
    IN  IF data = NotJson
        THEN Raised(Exc("DocumentAnalysisError", MsgBadStructure))     \* json.JSONDecodeError
        ELSE IF data.t # "object"
        THEN Raised(Exc("DocumentAnalysisError", MsgResultError))      \* data.get: AttributeError
        ELSE IF ~has_useful_info(data)
        THEN Raised(Exc("DocumentAnalysisError", MsgNoUsefulInfo))
        ELSE Returned(ConvertAmount(ConvertDate(data)))

(***************************************************************************)
(* The backends and the two analyzers (app/services/pdf_llm_analyzer.py).  *)
(***************************************************************************)
\* What a backend call can end with: an exception of the client (timeout, refused
\* connection, bad key, ...) or a raw answer.
BackendError == <<[t |-> "client_exception"]>>

FullObject ==
    [t |-> "object", document_number |-> Str("INV-TEST-123"), document_date |-> Str("2024-10-29"),
     sender |-> Str("text"), purpose |-> Str("text"), amount |-> Num(1500050, -2)]
SenderOnlyObject ==
    [t |-> "object", document_number |-> Absent, document_date |-> Null,
     sender |-> Str("text"), purpose |-> Null, amount |-> Null]
AllNullObject ==
    [t |-> "object", document_number |-> Null, document_date |-> Null,
     sender |-> Null, purpose |-> Null, amount |-> Null]
BadDateOnlyObject == [AllNullObject EXCEPT !.document_date = Str("29.10.2024")]

\* The raw answers the backends give in the pipeline runs.
BackendAnswers ==
    { <<FenceJson, WS, FullObject, WS, Fence>>,
      <<SenderOnlyObject>>,
      <<AllNullObject>>,
      <<BadDateOnlyObject>>,
      <<NotJson>> }

BackendOutcomes == BackendAnswers \cup {BackendError}

\* an analyze_document whose try block spans the parse as well
ollama_analyze_document_wraps_all(backend_outcome) ==
    IF backend_outcome = BackendError \/ ~parse_response(backend_outcome).ok
    THEN Raised(Exc("LLMServiceError", MsgOllamaDown))
    ELSE parse_response(backend_outcome)

\* PDFLLMAnalyzer.analyze_document
ollama_analyze_document(backend_outcome) ==
    IF backend_outcome = BackendError
    THEN Raised(Exc("LLMServiceError", MsgOllamaDown))
    ELSE parse_response(backend_outcome)

\* PDFMistralAnalyzer.analyze_document
mistral_analyze_document(backend_outcome) ==
    IF backend_outcome = BackendError
    THEN Raised(Exc("LLMServiceError", MsgMistralDown))
    ELSE parse_response(backend_outcome)

\* The process-wide settings that the analyzers and the upload paths read.
Settings == [USE_LANGGRAPH_FALLBACK : BOOLEAN, MISTRAL_API_KEY : {"", "secret"}]

\* The defaults of app/core/config.py, with a key in the environment.
DefaultSettings == [USE_LANGGRAPH_FALLBACK |-> TRUE, MISTRAL_API_KEY |-> "secret"]

Backends == {"ollama", "mistral"}

\* What a constructor did: the analyzer exists (ok) or the constructor raised
\* exc; built lists the backends for which it constructed a client.
Constructed(built) == [ok |-> TRUE, exc |-> Null, built |-> built]
ConstructorRaised(exc, built) == [ok |-> FALSE, exc |-> exc, built |-> built]

\* PDFLLMAnalyzer.__init__: self._llm = OllamaLLM(...)
PDFLLMAnalyzer_init(cfg) == Constructed(<<"ollama">>)

\* a constructor that builds the client whatever the key is
PDFMistralAnalyzer_init_no_check(cfg) == Constructed(<<"mistral">>)

\* PDFMistralAnalyzer.__init__: the key is tested before ChatMistralAI(...) is built
PDFMistralAnalyzer_init(cfg) ==
    IF ~Truthy(Str(cfg.MISTRAL_API_KEY))
    THEN ConstructorRaised(Exc("RuntimeError", MsgNoApiKey), <<>>)
    ELSE Constructed(<<"mistral">>)

\* LangGraphPDFAnalyzer.__init__: self._ollama = PDFLLMAnalyzer(), then
\* self._mistral = PDFMistralAnalyzer(); an exception of either leaves __init__
LangGraphPDFAnalyzer_init(cfg) ==
    LET o == PDFLLMAnalyzer_init(cfg)
        m == PDFMistralAnalyzer_init(cfg)
    IN  IF ~o.ok THEN o
        ELSE IF ~m.ok THEN ConstructorRaised(m.exc, o.built \o m.built)
        ELSE Constructed(o.built \o m.built)

(***************************************************************************)
(* LangGraphPDFAnalyzer (app/services/langgraph_fallback_analyzer.py).     *)
(* A node gives the state update it returns, or the exception it raises;   *)
(* LangGraph merges an update into the state key by key.                   *)
(***************************************************************************)
\* ainvoke({"text": text_content}): the other keys are not set
InitialState(text) ==
    [text |-> text, result |-> Null, error |-> Null, fallback_needed |-> Null]

NoState == InitialState(Null)

\* _ollama_node with the fallback flag left false after a failed call
ollama_node_no_fallback(st, res) ==
    IF res.ok
    THEN Returned([st EXCEPT !.result = res.value, !.fallback_needed = Bool(FALSE)])
    ELSE IF IsInstance(res.exc, "DocumentParsingError")
    THEN Raised(res.exc)
    ELSE Returned([st EXCEPT !.result = Null, !.error = Str(res.exc.msg),
                             !.fallback_needed = Bool(FALSE)])

\* _ollama_node without the except clause that re-raises DocumentParsingError
ollama_node_records_all(st, res) ==
    IF res.ok
    THEN Returned([st EXCEPT !.result = res.value, !.fallback_needed = Bool(FALSE)])
    ELSE Returned([st EXCEPT !.result = Null, !.error = Str(res.exc.msg),
                             !.fallback_needed = Bool(TRUE)])

\* the try/except of _ollama_node around self._ollama.analyze_document
ollama_node(st, res) ==
    IF res.ok
    THEN Returned([st EXCEPT !.result = res.value, !.fallback_needed = Bool(FALSE)])
    ELSE IF IsInstance(res.exc, "DocumentParsingError")
    THEN Raised(res.exc)
    ELSE IF IsInstance(res.exc, "LLMServiceError")
    THEN Returned([st EXCEPT !.result = Null, !.error = Str(res.exc.msg),
                             !.fallback_needed = Bool(TRUE)])
    ELSE Returned([st EXCEPT !.result = Null, !.error = Str(res.exc.msg),
                             !.fallback_needed = Bool(TRUE)])

\* _mistral_node re-raising the analyzer's LLMServiceError instead of recording it
mistral_node_reraises(st, res) ==
    IF res.ok
    THEN Returned([st EXCEPT !.result = res.value, !.fallback_needed = Bool(FALSE)])
    ELSE IF IsInstance(res.exc, "DocumentParsingError") \/ IsInstance(res.exc, "LLMServiceError")
    THEN Raised(res.exc)
    ELSE Returned([st EXCEPT !.result = Null, !.error = Str(res.exc.msg),
                             !.fallback_needed = Bool(TRUE)])

\* the try/except of _mistral_node around self._mistral.analyze_document
mistral_node(st, res) ==
    IF res.ok
    THEN Returned([st EXCEPT !.result = res.value, !.fallback_needed = Bool(FALSE)])
    ELSE IF IsInstance(res.exc, "DocumentParsingError")
    THEN Raised(res.exc)
    ELSE IF IsInstance(res.exc, "LLMServiceError")
    THEN Returned([st EXCEPT !.result = Null, !.error = Str(res.exc.msg),
                             !.fallback_needed = Bool(TRUE)])
    ELSE Returned([st EXCEPT !.result = Null, !.error = Str(res.exc.msg),
                             !.fallback_needed = Bool(TRUE)])

\* _final_node, followed by analyze_document's return result_state["result"]
final_node(st) ==
    IF st.result # Null
    THEN Returned(st.result)
    ELSE Raised(Exc("LLMServiceError", MsgBothDown))

\* a router that goes to the Mistral node whatever the flag says
route_always_mistral(st) == "mistral"

\* _route_from_ollama
route_from_ollama(st) == IF Truthy(st.fallback_needed) THEN "mistral" ELSE "final"

(***************************************************************************)
(* DocumentProcessor.process_document (app/services/document_processor.py) *)
(***************************************************************************)
\* Content-Type values of the uploaded part, as sequences of pieces of the string;
\* Null is a part that came without a Content-Type header.
CtPdf      == Str(<<"application/pdf">>)
CtPdfParam == Str(<<"application/pdf", ";", "charset=binary">>)
CtPdfx     == Str(<<"application/pdf", "x">>)   \* the media type application/pdfx
CtText     == Str(<<"text/plain">>)
ContentTypes == {CtPdf, CtPdfParam, CtPdfx, CtText, Null}

AnalyzerKinds == {"PDFLLMAnalyzer", "PDFMistralAnalyzer", "LangGraphPDFAnalyzer", "StubAnalyzer"}

\* str.startswith
StartsWith(s, prefix) == Len(s) >= Len(prefix) /\ SubSeq(s, 1, Len(prefix)) = prefix

\* step 1: file.content_type.startswith("application/pdf"); None has no startswith
validate_mime(content_type) ==
    IF content_type = Null
    THEN Raised(Exc("AttributeError", "NoneType has no attribute startswith"))
    ELSE IF ~StartsWith(content_type.v, <<"application/pdf">>)
    THEN Raised(HTTPException(HTTP_400_BAD_REQUEST, MsgOnlyPdf))
    ELSE Returned(Null)

\* step 5: the except clauses around self.analyzer.analyze_document; the
\* HTTPException raised once the file is removed, or Null to go on to step 6
analysis_error_response(res) ==
    IF res.ok
    THEN Null
    ELSE IF IsInstance(res.exc, "DocumentAnalysisError")
    THEN HTTPException(HTTP_400_BAD_REQUEST, res.exc.msg)
    ELSE HTTPException(HTTP_500_INTERNAL_SERVER_ERROR, MsgAnalysisError)

\* step 6: Document(...) from extracted_data
Document(data, path, user_id) ==
    [document_number |-> Get(data, "document_number"),
     document_date   |-> Get(data, "document_date"),
     sender          |-> Get(data, "sender"),
     purpose         |-> Get(data, "purpose"),
     amount          |-> Get(data, "amount"),
     file_path       |-> path,
     user_id         |-> user_id]

\* what a test double in place of the analyzer does (MockAnalyzer, MockAnalyzerError,
\* and one that raises an exception outside the analysis hierarchy)
StubOutcomes ==
    { Returned(ConvertAmount(ConvertDate(FullObject))),
      Raised(Exc("DocumentAnalysisError", "analysis failed")),
      Raised(Exc("RuntimeError", "unexpected")) }

Backend(kind) == IF kind = "PDFMistralAnalyzer" THEN "mistral" ELSE "ollama"

\* the analyzer's constructor, by class; a test double builds no client
construct(kind, cfg) ==
    CASE kind = "PDFLLMAnalyzer"       -> PDFLLMAnalyzer_init(cfg)
      [] kind = "PDFMistralAnalyzer"   -> PDFMistralAnalyzer_init(cfg)
      [] kind = "LangGraphPDFAnalyzer" -> LangGraphPDFAnalyzer_init(cfg)
      [] OTHER                         -> Constructed(<<>>)

\* a fallback upload path that takes the orchestrator whatever the flag says
fallback_analyzer_ignores_flag(cfg) == "LangGraphPDFAnalyzer"

\* the analyzer of the fallback upload path, chosen by the flag
fallback_analyzer(cfg) ==
    IF cfg.USE_LANGGRAPH_FALLBACK THEN "LangGraphPDFAnalyzer" ELSE "PDFLLMAnalyzer"

\* the original name of every upload: the same for all of them
filename == <<"invoice", ".pdf">>

\* Path(file.filename or "").suffix or ".pdf"
Suffix(name) == IF Len(name) > 1 THEN name[Len(name)] ELSE ".pdf"

\* a storage name taken from the upload's own name
name_from_filename(uuid4, name) == Str(name)

\* step 2: unique_name = f"{uuid.uuid4()}{ext}"
unique_name(uuid4, name) == Str(<<"uuid4", uuid4, Suffix(name)>>)

\* a removal that leaves the file in place
unlink_keeps_file(files, path) == files

\* Path.unlink(missing_ok=True) on the upload directory
unlink(files, path) == files \ {path}

PipelineInit ==
    /\ pc = [r \in Runs |-> "idle"]
    /\ req = [r \in Runs |-> Null]
    /\ file_path = [r \in Runs |-> Null]
    /\ fs = {}
    /\ db = {}
    /\ state = [r \in Runs |-> NoState]
    /\ calls = [r \in Runs |-> <<>>]
    /\ inflight = [r \in Runs |-> {}]
    /\ results = [r \in Runs |-> <<>>]
    /\ text_content = [r \in Runs |-> Null]
    /\ analysis = [r \in Runs |-> Null]
    /\ pending = [r \in Runs |-> Null]
    /\ outcome = [r \in Runs |-> Null]
    /\ removed = [r \in Runs |-> 0]
    /\ next_uuid = 1
    /\ clients = [b \in Backends |-> 0]
    /\ answers = [r \in Runs |-> <<>>]

\* the tables are empty and nothing has been signed or answered
AppInit ==
    /\ users = <<>>
    /\ issued = {}
    /\ documents = <<>>
    /\ response = Null

Init ==
    /\ response_text = <<>>
    /\ parsed = Null
    /\ settings \in Settings
    /\ PipelineInit
    /\ AppInit

\* process_document is called: steps 1 and 2 (lines 192-202), up to the first await
process_document(r, endpoint, ct, kind) ==
    /\ req' = [req EXCEPT ![r] = [endpoint |-> endpoint, content_type |-> ct, analyzer |-> kind]]
    /\ IF validate_mime(ct).ok
       THEN /\ file_path' = [file_path EXCEPT ![r] = unique_name(next_uuid, filename)]
            /\ next_uuid' = next_uuid + 1
            /\ pc' = [pc EXCEPT ![r] = "save"]
            /\ UNCHANGED outcome
       ELSE /\ outcome' = [outcome EXCEPT ![r] = validate_mime(ct)]
            /\ pc' = [pc EXCEPT ![r] = "raised"]
            /\ UNCHANGED <<file_path, next_uuid>>

\* a request arrives at an upload path: the analyzer is constructed, then
\* DocumentProcessor(analyzer).process_document runs up to its first await; an
\* exception of the constructor leaves the request before process_document
upload(r, endpoint, kind) ==
    LET made == construct(kind, settings)
    IN  /\ IF r = 1 THEN TRUE ELSE pc[r - 1] # "idle"     \* requests are numbered as they arrive
        /\ clients' = [b \in Backends |->
               clients[b] + Cardinality({i \in 1..Len(made.built) : made.built[i] = b})]
        /\ \E ct \in ContentTypes :
               IF made.ok
               THEN process_document(r, endpoint, ct, kind)
               ELSE /\ req' = [req EXCEPT ![r] =
                            [endpoint |-> endpoint, content_type |-> ct, analyzer |-> "none"]]
                    /\ outcome' = [outcome EXCEPT ![r] = Raised(made.exc)]
                    /\ pc' = [pc EXCEPT ![r] = "raised"]
                    /\ UNCHANGED <<file_path, next_uuid>>
        /\ UNCHANGED <<parser_vars, app_vars, fs, db, state, calls, inflight, results, text_content,
                       analysis, pending, removed, settings, answers>>

\* DocumentService.upload_and_process_document (POST /upload_local)
upload_and_process_document(r) ==
    /\ pc[r] = "idle"
    /\ upload(r, "upload_local", "PDFLLMAnalyzer")

\* DocumentService.upload_and_process_document_with_mistral_api (POST /upload_mistral_online)
upload_and_process_document_with_mistral_api(r) ==
    /\ pc[r] = "idle"
    /\ upload(r, "upload_mistral_online", "PDFMistralAnalyzer")

\* DocumentService.upload_and_process_document_fallback (POST /upload_fallback)
upload_and_process_document_fallback(r) ==
    /\ pc[r] = "idle"
    /\ upload(r, "upload_fallback", fallback_analyzer(settings))

\* DocumentProcessor(MockAnalyzer()).process_document, as the unit tests call it
process_document_with_stub(r) ==
    /\ pc[r] = "idle"
    /\ upload(r, "test", "StubAnalyzer")

\* step 3: await self._save_upload_file(file, file_path) and its except clause;
\* a failure after aiofiles.open leaves what was written
save_upload_file(r) ==
    /\ pc[r] = "save"
    /\ \E io \in {"ok", "open_failed", "write_failed"} :
        /\ fs' = IF io = "open_failed" THEN fs ELSE fs \cup {file_path[r]}
        /\ IF io = "ok"
           THEN /\ pc' = [pc EXCEPT ![r] = "extract"]
                /\ UNCHANGED outcome
           ELSE /\ pc' = [pc EXCEPT ![r] = "raised"]
                /\ outcome' = [outcome EXCEPT ![r] =
                       Raised(HTTPException(HTTP_500_INTERNAL_SERVER_ERROR, MsgSaveError))]
    /\ UNCHANGED <<parser_vars, app_vars, req, file_path, db, state, calls, inflight, results,
                   text_content, analysis, pending, removed, next_uuid, settings, clients, answers>>

\* step 4: await asyncio.to_thread(extract_text_from_pdf, ...) and its except clause
extract_text(r) ==
    /\ pc[r] = "extract"
    /\ \E readable \in BOOLEAN :
        IF readable /\ file_path[r] \in fs
        THEN /\ text_content' = [text_content EXCEPT ![r] = Returned(Str("text"))]
             /\ pc' = [pc EXCEPT ![r] = "analyze"]
             /\ UNCHANGED pending
        ELSE /\ text_content' = [text_content EXCEPT ![r] = Raised(Exc("PdfError", "unreadable"))]
             /\ pc' = [pc EXCEPT ![r] = "cleanup"]
             /\ pending' = [pending EXCEPT ![r] =
                    HTTPException(HTTP_400_BAD_REQUEST, MsgExtractError)]
    /\ UNCHANGED <<parser_vars, app_vars, req, file_path, fs, db, state, calls, inflight, results,
                   analysis, outcome, removed, next_uuid, settings, clients, answers>>

\* step 5, after analyze_document returned or raised: on to step 6, or to the cleanup
AnalysisDone(r, res) ==
    /\ analysis' = [analysis EXCEPT ![r] = res]
    /\ pending' = [pending EXCEPT ![r] = analysis_error_response(res)]
    /\ pc' = [pc EXCEPT ![r] = IF res.ok THEN "db" ELSE "cleanup"]

\* a single analyzer starts its backend call (lines 142-145, 245-248)
analyzer_invoke(r) ==
    /\ pc[r] = "analyze"
    /\ req[r].analyzer \in {"PDFLLMAnalyzer", "PDFMistralAnalyzer"}
    /\ calls' = [calls EXCEPT ![r] = Append(@, Backend(req[r].analyzer))]
    /\ inflight' = [inflight EXCEPT ![r] = @ \cup {Backend(req[r].analyzer)}]
    /\ pc' = [pc EXCEPT ![r] = "llm_wait"]
    /\ UNCHANGED <<parser_vars, app_vars, req, file_path, fs, db, state, results, text_content,
                   analysis, pending, outcome, removed, next_uuid, settings, clients, answers>>

\* the backend call of a single analyzer ends; the answer is parsed
analyzer_complete(r) ==
    /\ pc[r] = "llm_wait"
    /\ \E o \in BackendOutcomes :
        LET res == IF req[r].analyzer = "PDFMistralAnalyzer"
                   THEN mistral_analyze_document(o)
                   ELSE ollama_analyze_document(o)
        IN  /\ answers' = [answers EXCEPT ![r] = Append(@, o)]
            /\ results' = [results EXCEPT ![r] = Append(@, res)]
            /\ AnalysisDone(r, res)
    /\ inflight' = [inflight EXCEPT ![r] = @ \ {Backend(req[r].analyzer)}]
    /\ UNCHANGED <<parser_vars, app_vars, req, file_path, fs, db, state, calls, text_content,
                   outcome, removed, next_uuid, settings, clients>>

\* a test double in place of the analyzer
stub_analyze(r) ==
    /\ pc[r] = "analyze"
    /\ req[r].analyzer = "StubAnalyzer"
    /\ \E res \in StubOutcomes : AnalysisDone(r, res)
    /\ UNCHANGED <<parser_vars, app_vars, req, file_path, fs, db, state, calls, inflight, results,
                   text_content, outcome, removed, next_uuid, settings, clients, answers>>

\* LangGraphPDFAnalyzer.analyze_document: ainvoke enters the graph at "ollama",
\* and _ollama_node starts the call of the Ollama analyzer
ollama_node_enter(r) ==
    /\ pc[r] = "analyze"
    /\ req[r].analyzer = "LangGraphPDFAnalyzer"
    /\ state' = [state EXCEPT ![r] = InitialState(text_content[r].value)]
    /\ calls' = [calls EXCEPT ![r] = Append(@, "ollama")]
    /\ inflight' = [inflight EXCEPT ![r] = @ \cup {"ollama"}]
    /\ pc' = [pc EXCEPT ![r] = "ollama"]
    /\ UNCHANGED <<parser_vars, app_vars, req, file_path, fs, db, results, text_content, analysis,
                   pending, outcome, removed, next_uuid, settings, clients, answers>>

\* the Ollama call ends: _ollama_node returns its update and the graph routes on,
\* or the node raises and the exception leaves ainvoke
ollama_node_exit(r) ==
    /\ pc[r] = "ollama"
    /\ \E o \in BackendOutcomes :
        LET res == ollama_analyze_document(o)
            node == ollama_node(state[r], res)
        IN  /\ answers' = [answers EXCEPT ![r] = Append(@, o)]
            /\ results' = [results EXCEPT ![r] = Append(@, res)]
            /\ IF node.ok
               THEN /\ state' = [state EXCEPT ![r] = node.value]
                    /\ pc' = [pc EXCEPT ![r] = route_from_ollama(node.value)]
                    /\ UNCHANGED <<analysis, pending>>
               ELSE /\ AnalysisDone(r, node)
                    /\ UNCHANGED state
    /\ inflight' = [inflight EXCEPT ![r] = @ \ {"ollama"}]
    /\ UNCHANGED <<parser_vars, app_vars, req, file_path, fs, db, calls, text_content, outcome,
                   removed, next_uuid, settings, clients>>

\* _mistral_node starts the call of the Mistral analyzer
mistral_node_enter(r) ==
    /\ pc[r] = "mistral"
    /\ calls' = [calls EXCEPT ![r] = Append(@, "mistral")]
    /\ inflight' = [inflight EXCEPT ![r] = @ \cup {"mistral"}]
    /\ pc' = [pc EXCEPT ![r] = "mistral_wait"]
    /\ UNCHANGED <<parser_vars, app_vars, req, file_path, fs, db, state, results, text_content,
                   analysis, pending, outcome, removed, next_uuid, settings, clients, answers>>

\* the Mistral call ends: _mistral_node returns its update (edge mistral -> final),
\* or raises
mistral_node_exit(r) ==
    /\ pc[r] = "mistral_wait"
    /\ \E o \in BackendOutcomes :
        LET res == mistral_analyze_document(o)
            node == mistral_node(state[r], res)
        IN  /\ answers' = [answers EXCEPT ![r] = Append(@, o)]
            /\ results' = [results EXCEPT ![r] = Append(@, res)]
            /\ IF node.ok
               THEN /\ state' = [state EXCEPT ![r] = node.value]
                    /\ pc' = [pc EXCEPT ![r] = "final"]
                    /\ UNCHANGED <<analysis, pending>>
               ELSE /\ AnalysisDone(r, node)
                    /\ UNCHANGED state
    /\ inflight' = [inflight EXCEPT ![r] = @ \ {"mistral"}]
    /\ UNCHANGED <<parser_vars, app_vars, req, file_path, fs, db, calls, text_content, outcome,
                   removed, next_uuid, settings, clients>>

\* _final_node; analyze_document returns result_state["result"] or the node's
\* exception leaves ainvoke
final_node_run(r) ==
    /\ pc[r] = "final"
    /\ AnalysisDone(r, final_node(state[r]))
    /\ UNCHANGED <<parser_vars, app_vars, req, file_path, fs, db, state, calls, inflight, results,
                   text_content, outcome, removed, next_uuid, settings, clients, answers>>

\* await self._remove_file(file_path), then the raise of the HTTPException
remove_file(r) ==
    /\ pc[r] = "cleanup"
    /\ fs' = unlink(fs, file_path[r])
    /\ removed' = [removed EXCEPT ![r] = @ + 1]
    /\ outcome' = [outcome EXCEPT ![r] = Raised(pending[r])]
    /\ pc' = [pc EXCEPT ![r] = "raised"]
    /\ UNCHANGED <<parser_vars, app_vars, req, file_path, db, state, calls, inflight, results,
                   text_content, analysis, pending, next_uuid, settings, clients, answers>>

\* step 6: db.add, await db.commit(), await db.refresh(document), return document;
\* there is no except clause around them
db_commit(r) ==
    /\ pc[r] = "db"
    /\ \E io \in {"ok", "commit_failed", "refresh_failed"} :
        LET document == Document(analysis[r].value, file_path[r], r)
        IN  /\ db' = IF io = "commit_failed" THEN db ELSE db \cup {document}
            /\ outcome' = [outcome EXCEPT ![r] =
                   IF io = "ok" THEN Returned(document)
                   ELSE Raised(Exc("SQLAlchemyError", io))]
            /\ pc' = [pc EXCEPT ![r] = IF io = "ok" THEN "returned" ELSE "raised"]
    /\ UNCHANGED <<parser_vars, app_vars, req, file_path, fs, state, calls, inflight, results,
                   text_content, analysis, pending, removed, next_uuid, settings, clients, answers>>

Next ==
    \E r \in Runs :
        \/ upload_and_process_document(r)
        \/ upload_and_process_document_with_mistral_api(r)
        \/ upload_and_process_document_fallback(r)
        \/ process_document_with_stub(r)
        \/ save_upload_file(r)
        \/ extract_text(r)
        \/ analyzer_invoke(r)
        \/ analyzer_complete(r)
        \/ stub_analyze(r)
        \/ ollama_node_enter(r)
        \/ ollama_node_exit(r)
        \/ mistral_node_enter(r)
        \/ mistral_node_exit(r)
        \/ final_node_run(r)
        \/ remove_file(r)
        \/ db_commit(r)

Spec == Init /\ [][Next]_vars

\* The event loop runs every step of a request that is ready to run. The end of
\* a backend call is up to the backend: OllamaLLM and ChatMistralAI are built
\* without a timeout and the awaits of self._llm.invoke / ainvoke are not wrapped
\* in asyncio.wait_for, so nothing in the program ends a call that gets no answer.
Fairness ==
    \A r \in Runs :
        /\ WF_vars(upload_and_process_document(r))
        /\ WF_vars(upload_and_process_document_with_mistral_api(r))
        /\ WF_vars(upload_and_process_document_fallback(r))
        /\ WF_vars(process_document_with_stub(r))
        /\ WF_vars(save_upload_file(r))
        /\ WF_vars(extract_text(r))
        /\ WF_vars(analyzer_invoke(r))
        /\ WF_vars(stub_analyze(r))
        /\ WF_vars(ollama_node_enter(r))
        /\ WF_vars(mistral_node_enter(r))
        /\ WF_vars(final_node_run(r))
        /\ WF_vars(remove_file(r))
        /\ WF_vars(db_commit(r))

FairSpec == Init /\ [][Next]_vars /\ Fairness

(***************************************************************************)
(* process_document with cancellation: the task of a request is cancelled  *)
(* (the client disconnects, the server shuts down) while it is suspended.  *)
(***************************************************************************)
\* the awaits of steps 4 and 5 at which a run waits with its file saved
SuspensionPoints == {"extract", "llm_wait", "ollama", "mistral_wait"}

\* asyncio raises CancelledError at the await the task is suspended in; the
\* except clauses of steps 4 and 5 and of the graph nodes catch Exception
cancel(r) ==
    /\ pc[r] \in SuspensionPoints
    /\ LET exc == Exc("CancelledError", "cancelled")
       IN  IF IsInstance(exc, "Exception")
           THEN /\ pending' = [pending EXCEPT ![r] =
                       HTTPException(HTTP_500_INTERNAL_SERVER_ERROR, MsgAnalysisError)]
                /\ pc' = [pc EXCEPT ![r] = "cleanup"]
                /\ UNCHANGED outcome
           ELSE /\ outcome' = [outcome EXCEPT ![r] = Raised(exc)]
                /\ pc' = [pc EXCEPT ![r] = "cancelled"]
                /\ UNCHANGED pending
    /\ inflight' = [inflight EXCEPT ![r] = {}]
    /\ UNCHANGED <<parser_vars, app_vars, req, file_path, fs, db, state, calls, results,
                   text_content, analysis, removed, next_uuid, settings, clients, answers>>

CancelNext ==
    \/ Next
    \/ \E r \in Runs : cancel(r)

CancelSpec == Init /\ [][CancelNext]_vars

(***************************************************************************)
(* The Response Parser on its own: every raw answer, parsed once.          *)
(***************************************************************************)
ParserInit ==
    /\ response_text \in RawResponses
    /\ parsed = Null
    /\ settings = DefaultSettings
    /\ PipelineInit
    /\ AppInit

ParseResponse ==
    /\ parsed = Null
    /\ parsed' = parse_response(response_text)
    /\ UNCHANGED <<response_text, pipeline_vars, app_vars>>

ParserNext == ParseResponse

ParserSpec == ParserInit /\ [][ParserNext]_vars

(***************************************************************************)
(* LangGraphPDFAnalyzer.analyze_document on its own: concurrent runs of    *)
(* the compiled graph of one analyzer object, whose two analyzers give any *)
(* of the outcomes an analyze_document call can have.                      *)
(***************************************************************************)
Texts == {Str("invoice A"), Str("invoice B")}

\* what self._ollama.analyze_document(text) / self._mistral.analyze_document(text)
\* can give: a record extracted from that text, or an exception of any class
AnalyzerResults(text) ==
    { Returned([ConvertAmount(ConvertDate(SenderOnlyObject)) EXCEPT !.purpose = text]),
      Raised(Exc("DocumentParsingError", MsgNoUsefulInfo)),
      Raised(Exc("LLMServiceError", MsgOllamaDown)),
      Raised(Exc("DocumentAnalysisError", MsgResultError)),
      Raised(Exc("RuntimeError", "unexpected")) }

\* one state for all the runs of the analyzer object
StateSlot_shared(r) == 1

\* ainvoke({"text": text_content}) gives each run a state of its own
StateSlot(r) == r

\* analyze_document: ainvoke enters the graph at "ollama" and _ollama_node
\* starts the call of self._ollama
graph_ainvoke(r) ==
    /\ pc[r] = "idle"
    /\ \E text \in Texts :
        /\ text_content' = [text_content EXCEPT ![r] = Returned(text)]
        /\ state' = [state EXCEPT ![StateSlot(r)] = InitialState(text)]
    /\ calls' = [calls EXCEPT ![r] = Append(@, "ollama")]
    /\ inflight' = [inflight EXCEPT ![r] = @ \cup {"ollama"}]
    /\ pc' = [pc EXCEPT ![r] = "ollama"]
    /\ UNCHANGED <<parser_vars, app_vars, req, file_path, fs, db, results, analysis,
                   pending, outcome, removed, next_uuid, settings, clients, answers>>

\* the call of self._ollama ends: _ollama_node returns its update and the graph
\* routes on, or the node raises and the exception leaves ainvoke
graph_ollama_node(r) ==
    /\ pc[r] = "ollama"
    /\ \E res \in AnalyzerResults(state[StateSlot(r)].text) :
        LET node == ollama_node(state[StateSlot(r)], res)
        IN  /\ results' = [results EXCEPT ![r] = Append(@, res)]
            /\ IF node.ok
               THEN /\ state' = [state EXCEPT ![StateSlot(r)] = node.value]
                    /\ pc' = [pc EXCEPT ![r] = route_from_ollama(node.value)]
                    /\ UNCHANGED analysis
               ELSE /\ analysis' = [analysis EXCEPT ![r] = node]
                    /\ pc' = [pc EXCEPT ![r] = "done"]
                    /\ UNCHANGED state
    /\ inflight' = [inflight EXCEPT ![r] = @ \ {"ollama"}]
    /\ UNCHANGED <<parser_vars, app_vars, req, file_path, fs, db, calls, text_content,
                   pending, outcome, removed, next_uuid, settings, clients, answers>>

\* _mistral_node starts the call of self._mistral
graph_mistral_call(r) ==
    /\ pc[r] = "mistral"
    /\ calls' = [calls EXCEPT ![r] = Append(@, "mistral")]
    /\ inflight' = [inflight EXCEPT ![r] = @ \cup {"mistral"}]
    /\ pc' = [pc EXCEPT ![r] = "mistral_wait"]
    /\ UNCHANGED <<parser_vars, app_vars, req, file_path, fs, db, state, results,
                   text_content, analysis, pending, outcome, removed, next_uuid, settings,
                   clients, answers>>

\* the call of self._mistral ends: _mistral_node returns its update (edge
\* mistral -> final), or raises
graph_mistral_node(r) ==
    /\ pc[r] = "mistral_wait"
    /\ \E res \in AnalyzerResults(state[StateSlot(r)].text) :
        LET node == mistral_node(state[StateSlot(r)], res)
        IN  /\ results' = [results EXCEPT ![r] = Append(@, res)]
            /\ IF node.ok
               THEN /\ state' = [state EXCEPT ![StateSlot(r)] = node.value]
                    /\ pc' = [pc EXCEPT ![r] = "final"]
                    /\ UNCHANGED analysis
               ELSE /\ analysis' = [analysis EXCEPT ![r] = node]
                    /\ pc' = [pc EXCEPT ![r] = "done"]
                    /\ UNCHANGED state
    /\ inflight' = [inflight EXCEPT ![r] = @ \ {"mistral"}]
    /\ UNCHANGED <<parser_vars, app_vars, req, file_path, fs, db, calls, text_content,
                   pending, outcome, removed, next_uuid, settings, clients, answers>>

\* _final_node; analyze_document returns result_state["result"], or the node's
\* LLMServiceError leaves ainvoke
graph_final_node(r) ==
    /\ pc[r] = "final"
    /\ analysis' = [analysis EXCEPT ![r] = final_node(state[StateSlot(r)])]
    /\ pc' = [pc EXCEPT ![r] = "done"]
    /\ UNCHANGED <<parser_vars, app_vars, req, file_path, fs, db, state, calls, inflight,
                   results, text_content, pending, outcome, removed, next_uuid, settings,
                   clients, answers>>

GraphNext ==
    \E r \in Runs :
        \/ graph_ainvoke(r)
        \/ graph_ollama_node(r)
        \/ graph_mistral_call(r)
        \/ graph_mistral_node(r)
        \/ graph_final_node(r)

GraphInit ==
    /\ response_text = <<>>
    /\ parsed = Null
    /\ settings = DefaultSettings
    /\ PipelineInit
    /\ AppInit

GraphSpec == GraphInit /\ [][GraphNext]_vars

(***************************************************************************)
(* Accounts and tokens (app/core/security.py, app/api/deps.py,             *)
(* app/services/user_service.py).                                          *)
(***************************************************************************)
HTTP_401_UNAUTHORIZED == 401
HTTP_403_FORBIDDEN == 403
HTTP_404_NOT_FOUND == 404

Emails == {"a@example.com", "b@example.com"}
Passwords == {"secret1", "secret2"}

\* pwd_context.hash / pwd_context.verify (argon2)
get_password_hash(password) == <<"argon2", password>>
verify_password(plain_password, hashed_password) ==
    hashed_password = <<"argon2", plain_password>>

\* jwt.encode of the payload with "type" added, signed with settings.JWT_SECRET
create_registration_token(sub) == [sub |-> sub, type |-> "registration", signed |-> TRUE]
create_auth_token(sub) == [sub |-> sub, type |-> "access", signed |-> TRUE]
create_password_reset_token(sub) == [sub |-> sub, type |-> "reset", signed |-> TRUE]

\* a token that jwt.decode refuses (wrong signature or expired)
BadToken == [sub |-> 1, type |-> "access", signed |-> FALSE]
\* no Authorization header: oauth2_scheme gives None (auto_error=False)
NoToken == Null

\* the tokens a client can present
Presentable == issued \cup {BadToken}

\* jwt.decode: the payload, or None on JWTError
verify_token(token) ==
    IF token.signed THEN [sub |-> token.sub, type |-> token.type] ELSE Null

\* select(User).where(User.email == email): the ids of the matching rows
ByEmail(email) == {i \in DOMAIN users : users[i].email = email}

User(email, password) ==
    [email |-> email, password_hash |-> get_password_hash(password),
     is_active |-> FALSE, is_blocked |-> FALSE, roles |-> {"guest"}]

\* Depends(get_current_user) without the type test
get_current_user_any_type(token) ==
    IF token = NoToken
    THEN Raised(HTTPException(HTTP_401_UNAUTHORIZED, "not authenticated"))
    ELSE LET payload == verify_token(token)
         IN  IF payload = Null
             THEN Raised(HTTPException(HTTP_401_UNAUTHORIZED, "bad token"))
             ELSE IF payload.sub \notin DOMAIN users
             THEN Raised(HTTPException(HTTP_401_UNAUTHORIZED, "user not found"))
             ELSE IF users[payload.sub].is_blocked
             THEN Raised(HTTPException(HTTP_403_FORBIDDEN, "Account is blocked"))
             ELSE IF ~users[payload.sub].is_active
             THEN Raised(HTTPException(HTTP_403_FORBIDDEN, "user is not active"))
             ELSE Returned(payload.sub)

\* Depends(get_current_user): the id of the user of the token, or the HTTPException
get_current_user(token) ==
    IF token = NoToken
    THEN Raised(HTTPException(HTTP_401_UNAUTHORIZED, "not authenticated"))
    ELSE LET payload == verify_token(token)
         IN  IF payload = Null
             THEN Raised(HTTPException(HTTP_401_UNAUTHORIZED, "bad token"))
             ELSE IF payload.type # "access"
             THEN Raised(HTTPException(HTTP_401_UNAUTHORIZED, "token of another type"))
             ELSE IF payload.sub \notin DOMAIN users
             THEN Raised(HTTPException(HTTP_401_UNAUTHORIZED, "user not found"))
             ELSE IF users[payload.sub].is_blocked
             THEN Raised(HTTPException(HTTP_403_FORBIDDEN, "Account is blocked"))
             ELSE IF ~users[payload.sub].is_active
             THEN Raised(HTTPException(HTTP_403_FORBIDDEN, "user is not active"))
             ELSE Returned(payload.sub)

\* Depends(get_current_supervisor)
get_current_supervisor(token) ==
    LET current_user == get_current_user(token)
    IN  IF ~current_user.ok
        THEN current_user
        ELSE IF "supervisor" \notin users[current_user.value].roles
                /\ "admin" \notin users[current_user.value].roles
        THEN Raised(HTTPException(HTTP_403_FORBIDDEN, "supervisors only"))
        ELSE current_user

\* POST /auth/register
register_user ==
    /\ \E email \in Emails, password \in Passwords, password_confirm \in Passwords :
        LET request == [op |-> "register", email |-> email, password |-> password]
        IN  IF password # password_confirm
            THEN /\ response' = request @@
                        [result |-> Raised(HTTPException(HTTP_400_BAD_REQUEST, "passwords differ"))]
                 /\ UNCHANGED <<users, issued>>
            ELSE IF ByEmail(email) # {}
            THEN /\ response' = request @@
                        [result |-> Raised(HTTPException(HTTP_400_BAD_REQUEST, "email is registered"))]
                 /\ UNCHANGED <<users, issued>>
            ELSE /\ users' = Append(users, User(email, password))
                 /\ issued' = issued \cup {create_registration_token(Len(users) + 1)}
                 /\ response' = request @@ [result |-> Returned("registered")]
    /\ UNCHANGED <<parser_vars, pipeline_vars, documents>>

\* GET /auth/register-confirm
confirm_registration ==
    /\ \E token \in Presentable :
        LET request == [op |-> "register-confirm", token |-> token]
            payload == verify_token(token)
        IN  IF payload = Null
            THEN /\ response' = request @@
                        [result |-> Raised(HTTPException(HTTP_400_BAD_REQUEST, "bad token"))]
                 /\ UNCHANGED users
            ELSE IF payload.type # "registration"
            THEN /\ response' = request @@
                        [result |-> Raised(HTTPException(HTTP_400_BAD_REQUEST, "wrong token type"))]
                 /\ UNCHANGED users
            ELSE IF payload.sub \notin DOMAIN users
            THEN /\ response' = request @@
                        [result |-> Raised(HTTPException(HTTP_404_NOT_FOUND, "user not found"))]
                 /\ UNCHANGED users
            ELSE IF users[payload.sub].is_active
            THEN /\ response' = request @@ [result |-> Returned("already activated")]
                 /\ UNCHANGED users
            ELSE /\ users' = [users EXCEPT ![payload.sub].is_active = TRUE]
                 /\ response' = request @@ [result |-> Returned("activated")]
    /\ UNCHANGED <<parser_vars, pipeline_vars, issued, documents>>

\* UserService.login_user: the Token, or the HTTPException
login_user(email, password) ==
    LET found == ByEmail(email)
        user == users[CHOOSE i \in found : TRUE]
    IN  IF found = {}
        THEN Raised(HTTPException(HTTP_400_BAD_REQUEST, "bad email or password"))
        ELSE IF ~verify_password(password, user.password_hash)
        THEN Raised(HTTPException(HTTP_400_BAD_REQUEST, "bad email or password"))
        ELSE IF ~user.is_active
        THEN Raised(HTTPException(HTTP_403_FORBIDDEN, "account is not activated"))
        ELSE Returned(create_auth_token(CHOOSE i \in found : TRUE))

\* POST /auth/login
login ==
    /\ \E email \in Emails, password \in Passwords :
        LET result == login_user(email, password)
        IN  /\ response' = [op |-> "login", email |-> email, password |-> password,
                            result |-> result]
            /\ issued' = IF result.ok THEN issued \cup {result.value} ELSE issued
    /\ UNCHANGED <<parser_vars, pipeline_vars, users, documents>>

\* POST /auth/resend-confirm
resend_confirmation_email ==
    /\ \E email \in Emails :
        LET request == [op |-> "resend-confirm", email |-> email]
            found == ByEmail(email)
            id == CHOOSE i \in found : TRUE
        IN  IF found = {}
            THEN /\ response' = request @@
                        [result |-> Raised(HTTPException(HTTP_404_NOT_FOUND, "user not found"))]
                 /\ UNCHANGED issued
            ELSE IF users[id].is_active
            THEN /\ response' = request @@
                        [result |-> Raised(HTTPException(HTTP_400_BAD_REQUEST, "already activated"))]
                 /\ UNCHANGED issued
            ELSE IF users[id].is_blocked
            THEN /\ response' = request @@
                        [result |-> Raised(HTTPException(HTTP_403_FORBIDDEN, "account is blocked"))]
                 /\ UNCHANGED issued
            ELSE /\ issued' = issued \cup {create_registration_token(id)}
                 /\ response' = request @@ [result |-> Returned("sent")]
    /\ UNCHANGED <<parser_vars, pipeline_vars, users, documents>>

\* POST /auth/password-reset-request
request_password_reset ==
    /\ \E email \in Emails :
        LET request == [op |-> "password-reset-request", email |-> email]
            found == ByEmail(email)
            id == CHOOSE i \in found : TRUE
        IN  IF found = {}
            THEN /\ response' = request @@
                        [result |-> Raised(HTTPException(HTTP_404_NOT_FOUND, "user not found"))]
                 /\ UNCHANGED issued
            ELSE IF ~users[id].is_active
            THEN /\ response' = request @@
                        [result |-> Raised(HTTPException(HTTP_403_FORBIDDEN, "account is not active"))]
                 /\ UNCHANGED issued
            ELSE IF users[id].is_blocked
            THEN /\ response' = request @@
                        [result |-> Raised(HTTPException(HTTP_403_FORBIDDEN, "account is blocked"))]
                 /\ UNCHANGED issued
            ELSE /\ issued' = issued \cup {create_password_reset_token(id)}
                 /\ response' = request @@ [result |-> Returned("sent")]
    /\ UNCHANGED <<parser_vars, pipeline_vars, users, documents>>

\* POST /auth/password-reset-confirm
confirm_password_reset ==
    /\ \E token \in Presentable, new_password \in Passwords :
        LET request == [op |-> "password-reset-confirm", token |-> token]
            payload == verify_token(token)
        IN  IF payload = Null
            THEN /\ response' = request @@
                        [result |-> Raised(HTTPException(HTTP_400_BAD_REQUEST, "bad token"))]
                 /\ UNCHANGED users
            ELSE IF payload.type # "reset"
            THEN /\ response' = request @@
                        [result |-> Raised(HTTPException(HTTP_400_BAD_REQUEST, "wrong token type"))]
                 /\ UNCHANGED users
            ELSE IF payload.sub \notin DOMAIN users
            THEN /\ response' = request @@
                        [result |-> Raised(HTTPException(HTTP_404_NOT_FOUND, "user not found"))]
                 /\ UNCHANGED users
            ELSE IF users[payload.sub].is_blocked
            THEN /\ response' = request @@
                        [result |-> Raised(HTTPException(HTTP_403_FORBIDDEN, "account is blocked"))]
                 /\ UNCHANGED users
            ELSE /\ users' = [users EXCEPT ![payload.sub].password_hash =
                                               get_password_hash(new_password)]
                 /\ response' = request @@ [result |-> Returned("password reset")]
    /\ UNCHANGED <<parser_vars, pipeline_vars, issued, documents>>

\* GET /users/my_info, an endpoint behind Depends(get_current_user)
read_current_user ==
    /\ \E token \in Presentable \cup {NoToken} :
        response' = [op |-> "my_info", token |-> token, result |-> get_current_user(token)]
    /\ UNCHANGED <<parser_vars, pipeline_vars, users, issued, documents>>

\* an administrator blocks or unblocks an account: users.is_blocked is written
\* in the database, no endpoint of the application writes it
set_is_blocked ==
    /\ \E id \in DOMAIN users :
        /\ users' = [users EXCEPT ![id].is_blocked = ~users[id].is_blocked]
        /\ response' = [op |-> "set_is_blocked", id |-> id, result |-> Returned("done")]
    /\ UNCHANGED <<parser_vars, pipeline_vars, issued, documents>>

AuthNext ==
    \/ register_user
    \/ confirm_registration
    \/ login
    \/ resend_confirmation_email
    \/ request_password_reset
    \/ confirm_password_reset
    \/ read_current_user
    \/ set_is_blocked

AuthInit ==
    /\ response_text = <<>>
    /\ parsed = Null
    /\ settings = DefaultSettings
    /\ PipelineInit
    /\ AppInit

AuthSpec == AuthInit /\ [][AuthNext]_vars

(***************************************************************************)
(* Documents of the users (app/api/documents.py,                           *)
(* app/services/document_service.py).                                      *)
(***************************************************************************)
\* Number of rows the documents table holds at most.
MaxDocs == 2

\* the role sets the accounts hold (UserRole rows are written in the database)
RoleSets == {{"guest"}, {"guest", "manager"}, {"guest", "manager", "supervisor"}}

\* what process_document gives for an upload: the extracted data, or the HTTPException
UploadOutcomes ==
    { Returned(ConvertAmount(ConvertDate(FullObject))),
      Raised(HTTPException(HTTP_400_BAD_REQUEST, MsgNoUsefulInfo)) }

\* DocumentUpdate.model_dump(exclude_unset=True): the fields the client sent
UpdateFields == {"sender"}
UpdateValues == {Str("edited"), Null}
DocumentUpdates ==
    UNION { [fields -> UpdateValues] : fields \in SUBSET UpdateFields }

\* for field, value in update_data.items(): setattr(document, field, value)
setattrs(document, update_data) ==
    [field \in DOMAIN document |->
        IF field \in DOMAIN update_data THEN update_data[field] ELSE document[field]]

\* get_document_by_id with where(Document.id == document_id) alone
get_document_by_id_any_owner(document_id, user_id) ==
    IF document_id \in DOMAIN documents
    THEN Returned(documents[document_id])
    ELSE Raised(HTTPException(HTTP_404_NOT_FOUND, "document not found"))

\* DocumentService.get_document_by_id:
\* where(Document.id == document_id, Document.user_id == user_id)
get_document_by_id(document_id, user_id) ==
    IF document_id \in DOMAIN documents /\ documents[document_id].user_id = user_id
    THEN Returned(documents[document_id])
    ELSE Raised(HTTPException(HTTP_404_NOT_FOUND, "document not found"))

\* DocumentService.get_document_by_id_for_supervisor: where(Document.id == document_id)
get_document_by_id_for_supervisor(document_id) ==
    IF document_id \in DOMAIN documents
    THEN Returned(documents[document_id])
    ELSE Raised(HTTPException(HTTP_404_NOT_FOUND, "document not found"))

DocumentIds == 1..MaxDocs

\* POST /documents/upload_local
upload_document ==
    /\ Len(documents) < MaxDocs
    /\ \E token \in Presentable, processed \in UploadOutcomes :
        LET current_user == get_current_user(token)
            request == [op |-> "upload", token |-> token]
            document == Document(processed.value,
                                 unique_name(next_uuid, filename), current_user.value)
        IN  IF ~current_user.ok
            THEN /\ response' = request @@ [result |-> current_user]
                 /\ UNCHANGED <<documents, next_uuid>>
            ELSE IF "manager" \notin users[current_user.value].roles
                    /\ "admin" \notin users[current_user.value].roles
            THEN /\ response' = request @@
                        [result |-> Raised(HTTPException(HTTP_403_FORBIDDEN, "not allowed"))]
                 /\ UNCHANGED <<documents, next_uuid>>
            ELSE IF ~processed.ok
            THEN /\ response' = request @@ [result |-> processed]
                 /\ UNCHANGED <<documents, next_uuid>>
            ELSE /\ documents' = Append(documents, document)
                 /\ next_uuid' = next_uuid + 1
                 /\ response' = request @@ [result |-> Returned(document)]
    /\ UNCHANGED <<parser_vars, pc, req, file_path, fs, db, state, calls, inflight, results,
                   text_content, analysis, pending, outcome, removed, settings, clients,
                   answers, users, issued>>

\* GET /documents/show_{document_id}
get_document ==
    /\ \E token \in Presentable, document_id \in DocumentIds :
        LET current_user == get_current_user(token)
        IN  response' = [op |-> "show", token |-> token, document_id |-> document_id,
                         result |-> IF current_user.ok
                                    THEN get_document_by_id(document_id, current_user.value)
                                    ELSE current_user]
    /\ UNCHANGED <<parser_vars, pipeline_vars, users, issued, documents>>

\* PATCH /documents/update_{document_id}
update_document ==
    /\ \E token \in Presentable, document_id \in DocumentIds,
          document_update \in DocumentUpdates :
        LET current_user == get_current_user(token)
            request == [op |-> "update", token |-> token, document_id |-> document_id]
            document == setattrs(documents[document_id], document_update)
        IN  IF ~current_user.ok
            THEN /\ response' = request @@ [result |-> current_user]
                 /\ UNCHANGED documents
            ELSE IF ~(/\ document_id \in DOMAIN documents
                      /\ documents[document_id].user_id = current_user.value)
            THEN /\ response' = request @@
                        [result |-> Raised(HTTPException(HTTP_404_NOT_FOUND, "document not found"))]
                 /\ UNCHANGED documents
            ELSE /\ documents' = [documents EXCEPT ![document_id] = document]
                 /\ response' = request @@ [result |-> Returned(document)]
    /\ UNCHANGED <<parser_vars, pipeline_vars, users, issued>>

\* GET /documents/supervisor/doc_{document_id}
get_document_admin ==
    /\ \E token \in Presentable, document_id \in DocumentIds :
        LET current_director == get_current_supervisor(token)
        IN  response' = [op |-> "supervisor/doc", token |-> token,
                         document_id |-> document_id,
                         result |-> IF current_director.ok
                                    THEN get_document_by_id_for_supervisor(document_id)
                                    ELSE current_director]
    /\ UNCHANGED <<parser_vars, pipeline_vars, users, issued, documents>>

DocsNext ==
    \/ upload_document
    \/ get_document
    \/ update_document
    \/ get_document_admin

\* an activated account that has logged in
ActiveUser(email, roles) ==
    [User(email, "secret1") EXCEPT !.is_active = TRUE, !.roles = roles]

\* two activated accounts that have logged in, and one registration token
DocsInit ==
    /\ response_text = <<>>
    /\ parsed = Null
    /\ settings = DefaultSettings
    /\ PipelineInit
    /\ \E roles1 \in RoleSets, roles2 \in RoleSets :
        users = <<ActiveUser("a@example.com", roles1), ActiveUser("b@example.com", roles2)>>
    /\ issued = {create_auth_token(1), create_auth_token(2), create_registration_token(2)}
    /\ documents = <<>>
    /\ response = Null

DocsSpec == DocsInit /\ [][DocsNext]_vars

(***************************************************************************)
(* Properties                                                              *)
(***************************************************************************)
\* request r is analysed by the fallback orchestrator
IsLangGraph(r) == req[r] # Null /\ req[r].analyzer = "LangGraphPDFAnalyzer"

\* an analyzer result that is an error of the Response Parser (empty or malformed
\* extraction), resp. the uniform backend-unavailable error
IsContentError(res) == ~res.ok /\ res.exc.cls = "DocumentAnalysisError"
IsBackendError(res) == ~res.ok /\ res.exc.cls = "LLMServiceError"

AllBackendsUnavailable == Raised(Exc("LLMServiceError", MsgBothDown))

HasDocument(r) == \E d \in db : d.file_path = file_path[r]

\* the media type of a Content-Type value: what stands before the parameters
RECURSIVE MediaType(_)
MediaType(s) ==
    IF s = <<>> \/ Head(s) = ";" THEN <<>> ELSE <<Head(s)>> \o MediaType(Tail(s))

IsPdfMime(ct) == ct # Null /\ MediaType(ct.v) = <<"application/pdf">>

\* C1: in an orchestrator run whose primary (Ollama) analyzer fails with a content
\* error of the Response Parser, analyze_document propagates that error at once
\* and the secondary (Mistral) analyzer is never invoked.
C1_ContentErrorShortCircuits ==
    \A r \in Runs :
        (IsLangGraph(r) /\ Len(results[r]) >= 1 /\ IsContentError(results[r][1]))
        => (calls[r] = <<"ollama">> /\ analysis[r] = results[r][1])

\* C2: in a finished orchestrator run whose primary failed with a backend error,
\* a content error of the secondary is what the caller gets, and the caller gets
\* AllBackendsUnavailable only when the secondary failed with a backend error too.
C2_SecondaryContentErrorPropagates ==
    \A r \in Runs :
        (IsLangGraph(r) /\ analysis[r] # Null /\ Len(results[r]) = 2
            /\ IsBackendError(results[r][1])) =>
            /\ IsContentError(results[r][2]) => analysis[r] = results[r][2]
            /\ analysis[r] = AllBackendsUnavailable => IsBackendError(results[r][2])

\* C3: after a backend error of the primary the run goes on to the secondary (it
\* never ends without the second attempt), and when the secondary returns a
\* record, analyze_document returns exactly that record, the backends having
\* been invoked as primary once, then secondary.
C3_FallbackReturnsSecondaryRecord ==
    \A r \in Runs :
        (IsLangGraph(r) /\ Len(results[r]) >= 1 /\ IsBackendError(results[r][1])) =>
            /\ Len(results[r]) = 1 => (pc[r] \in {"mistral", "mistral_wait"} /\ analysis[r] = Null)
            /\ (Len(results[r]) = 2 /\ results[r][2].ok) =>
                   /\ calls[r] = <<"ollama", "mistral">>
                   /\ IF pc[r] = "final" THEN analysis[r] = Null
                      ELSE analysis[r] = results[r][2]

C3_Witness ==
    \E r \in Runs :
        /\ IsLangGraph(r) /\ Len(results[r]) = 2
        /\ IsBackendError(results[r][1]) /\ results[r][2].ok
        /\ analysis[r] = results[r][2]

\* C4: when both analyzers failed with a backend error, analyze_document raises
\* AllBackendsUnavailable and returns no record.
C4_BothDownRaisesAllBackendsUnavailable ==
    \A r \in Runs :
        (IsLangGraph(r) /\ Len(results[r]) = 2
            /\ IsBackendError(results[r][1]) /\ IsBackendError(results[r][2])) =>
            IF pc[r] = "final" THEN analysis[r] = Null
            ELSE analysis[r] = AllBackendsUnavailable

C4_Witness ==
    \E r \in Runs :
        /\ IsLangGraph(r) /\ Len(results[r]) = 2
        /\ IsBackendError(results[r][1]) /\ IsBackendError(results[r][2])
        /\ analysis[r] = AllBackendsUnavailable

\* C5: when text extraction failed or the analyzer raised (any class of error),
\* the error is surfaced only after the stored file has been removed, by exactly
\* one removal, and no database row is added for the file.
C5_CleanupBeforeErrorSurfaces ==
    \A r \in Runs :
        ((text_content[r] # Null /\ ~text_content[r].ok)
            \/ (analysis[r] # Null /\ ~analysis[r].ok)) =>
            /\ ~HasDocument(r)
            /\ IF outcome[r] = Null
               THEN pc[r] = "cleanup" /\ removed[r] = 0
               ELSE /\ pc[r] = "raised" /\ ~outcome[r].ok
                    /\ file_path[r] \notin fs
                    /\ removed[r] = 1

C5_Witness ==
    \E r \in Runs :
        /\ analysis[r] # Null /\ ~analysis[r].ok
        /\ pc[r] = "raised" /\ removed[r] = 1 /\ file_path[r] \notin fs

\* C6: when process_document has ended after a successful save, the stored file
\* exists exactly if a database row for it was committed, and a row is committed
\* only when process_document returned the document.
C6_FileIffRecord ==
    \A r \in Runs :
        (pc[r] \in {"returned", "raised"} /\ text_content[r] # Null) =>
            /\ file_path[r] \in fs <=> HasDocument(r)
            /\ HasDocument(r) => outcome[r].ok

\* C7: a record returned by _parse_response has at least one of the five fields
\* non-null.
C7_ParsedRecordNotAllNull ==
    (parsed # Null /\ parsed.ok) =>
        \E i \in 1..Len(useful_fields) : Get(parsed.value, useful_fields[i]) # Null

\* C8: an analysis that failed because the backends are unavailable is surfaced
\* as HTTP 500, not as the 400 of a content error, and the stored file is removed.
C8_BackendUnavailableIs500 ==
    \A r \in Runs :
        (analysis[r] # Null /\ IsBackendError(analysis[r]) /\ pc[r] = "raised") =>
            /\ outcome[r].exc.cls = "HTTPException"
            /\ outcome[r].exc.status_code = HTTP_500_INTERNAL_SERVER_ERROR
            /\ file_path[r] \notin fs

\* C9: in an orchestrator run the backend invocations are [primary] or
\* [primary, secondary]; at most one call is pending at a time; the secondary is
\* invoked only after the primary attempt has ended in failure.
C9_PrimaryThenAtMostOneFallback ==
    \A r \in Runs :
        IsLangGraph(r) =>
            /\ calls[r] \in {<<>>, <<"ollama">>, <<"ollama", "mistral">>}
            /\ Cardinality(inflight[r]) <= 1
            /\ Len(results[r]) <= Len(calls[r])
            /\ Len(calls[r]) = 2 => (Len(results[r]) >= 1 /\ ~results[r][1].ok)
            /\ pc[r] \in {"db", "cleanup", "returned", "raised"} /\ file_path[r] # Null
                   /\ analysis[r] # Null
               => Len(calls[r]) >= 1

C9_Witness ==
    \E r \in Runs :
        /\ IsLangGraph(r) /\ pc[r] \in {"returned", "raised"}
        /\ calls[r] = <<"ollama", "mistral">> /\ Len(results[r]) = 2

\* C10: an upload whose MIME type is not PDF is rejected with HTTP 400 before
\* anything else happens: no path, no file, no extraction, no analyzer call, no row.
C10_NonPdfRejectedFirst ==
    \A r \in Runs :
        (req[r] # Null /\ req[r].analyzer # "none" /\ ~IsPdfMime(req[r].content_type)) =>
            /\ pc[r] = "raised"
            /\ outcome[r] = Raised(HTTPException(HTTP_400_BAD_REQUEST, MsgOnlyPdf))
            /\ file_path[r] = Null
            /\ text_content[r] = Null
            /\ calls[r] = <<>>
            /\ \A d \in db : d.user_id # r

\* C11: for both analyzers, a backend call that failed is raised as
\* LLMServiceError, and for a backend call that answered, analyze_document gives
\* exactly what _parse_response gives on the answer, a parser error included,
\* which is never an LLMServiceError.
C11_BackendErrorsWrappedParserErrorsUnchanged ==
    \A r \in Runs :
        /\ Len(answers[r]) = Len(results[r])
        /\ \A i \in 1..Len(results[r]) :
               IF answers[r][i] = BackendError
               THEN IsBackendError(results[r][i])
               ELSE /\ results[r][i] = parse_response(answers[r][i])
                    /\ ~IsBackendError(results[r][i])

C11_Witness ==
    \E r \in Runs :
        /\ Len(results[r]) = 2
        /\ calls[r] = <<"ollama", "mistral">>
        /\ answers[r][1] = BackendError /\ IsBackendError(results[r][1])
        /\ answers[r][2] # BackendError /\ IsContentError(results[r][2])

\* the JSON document that _parse_response finds in a raw answer
InputObject(text) == json_loads(StripFenceClose(StripFenceOpen(Strip(text))))

\* a date that is a string but not ISO-8601; an amount that is there but is no decimal
IsBadDate(data) == data.document_date.t = "str" /\ fromisoformat(data.document_date.v) = Null
IsBadAmount(data) == Get(data, "amount") # Null /\ DecimalOfStr(data.amount) = Null

\* C12: when the answer is an object whose date is a string that is not valid
\* ISO-8601, or whose amount cannot be converted to a decimal, _parse_response
\* does not fail: it returns a record in which that field is null and
\* document_number, sender and purpose are as they were in the answer.
C12_BadDateOrAmountDegradesToNull ==
    LET data == InputObject(response_text)
    IN  (parsed # Null /\ data # NotJson /\ data.t = "object"
            /\ (IsBadDate(data) \/ IsBadAmount(data))) =>
            /\ parsed.ok
            /\ IsBadDate(data) => parsed.value.document_date = Null
            /\ IsBadAmount(data) => parsed.value.amount = Null
            /\ parsed.value.document_number = data.document_number
            /\ parsed.value.sender = data.sender
            /\ parsed.value.purpose = data.purpose

\* C13: every analysis that has started ends: analyze_document returns a record
\* or raises, also when a backend never answers its call.
C13_EveryAnalysisTerminates ==
    \A r \in Runs : (pc[r] = "analyze") ~> (analysis[r] # Null)

\* C14: whatever uploads the process has handled, at most one client has been
\* constructed for each backend.
C14_ClientsConstructedOnce ==
    \A b \in Backends : clients[b] <= 1

\* the upload of request r has been written to its path in full
IsStored(r) == pc[r] = "extract" \/ text_content[r] # Null

\* C15: two requests never have the same storage path, also when their uploads
\* have the same name, and a file that a request stored stays in the upload
\* directory until that request itself removes it, whatever the other requests
\* save or clean up.
C15_RunsUseDistinctPaths ==
    /\ \A r1, r2 \in Runs :
           (r1 # r2 /\ file_path[r1] # Null /\ file_path[r2] # Null)
               => file_path[r1] # file_path[r2]
    /\ \A r \in Runs : (IsStored(r) /\ removed[r] = 0) => file_path[r] \in fs

C15_Witness ==
    \E r1, r2 \in Runs :
        /\ r1 # r2
        /\ pc[r1] = "raised" /\ removed[r1] = 1 /\ file_path[r1] \notin fs
        /\ IsStored(r2) /\ removed[r2] = 0 /\ file_path[r2] \in fs

\* request r came in by POST /upload_fallback and its analyzer was constructed
IsFallbackUpload(r) ==
    req[r] # Null /\ req[r].endpoint = "upload_fallback" /\ req[r].analyzer # "none"

OutcomeKind(res) ==
    IF res.ok THEN [k |-> "record", v |-> res.value]
    ELSE IF res = AllBackendsUnavailable THEN [k |-> "AllBackendsUnavailable", v |-> Null]
    ELSE IF IsBackendError(res) THEN [k |-> "BackendUnavailable", v |-> Null]
    ELSE [k |-> res.exc.cls, v |-> Str(res.exc.msg)]

\* C17: two analyses that ended with the same record, or with a failure of the
\* same category, give their callers the same outcome, whichever backend ran or
\* failed: the same result of analyze_document and, for a failure, the same
\* HTTP error of process_document.
C17_OutcomeHidesBackend ==
    \A r1, r2 \in Runs :
        (analysis[r1] # Null /\ analysis[r2] # Null
            /\ OutcomeKind(analysis[r1]) = OutcomeKind(analysis[r2])) =>
            /\ analysis[r1] = analysis[r2]
            /\ (~analysis[r1].ok /\ pc[r1] = "raised" /\ pc[r2] = "raised")
                   => outcome[r1] = outcome[r2]

\* a decimal without the trailing zeros of its fraction
RECURSIVE Normalise(_, _)
Normalise(mant, exp) ==
    IF exp < 0 /\ mant # 0 /\ mant % 10 = 0 THEN Normalise(mant \div 10, exp + 1)
    ELSE <<mant, exp>>

\* the amount of the answer is a number, or a string, that reads as a decimal
IsDecimalLiteral(x) == x.t \in {"num", "bignum"} \/ x = Str("15000.50")

\* the decimal that such an amount denotes
ExactDecimal(x) ==
    CASE x.t = "num"    -> Normalise(x.v[1], x.v[2])
      [] x.t = "bignum" -> x
      [] OTHER          -> Normalise(1500050, -2)

\* the value of a Decimal of the parsed record
DecimalValue(d) == IF "big" \in DOMAIN d THEN d.big ELSE Normalise(d.v[1], d.v[2])

\* C18: when the amount of the answer reads as a decimal, the amount of the
\* parsed record is a Decimal of exactly that value.
C18_AmountIsExactDecimal ==
    LET data == InputObject(response_text)
    IN  (parsed # Null /\ parsed.ok /\ IsDecimalLiteral(data.amount)) =>
            /\ parsed.value.amount.t = "Decimal"
            /\ DecimalValue(parsed.value.amount) = ExactDecimal(data.amount)

\* the JSON objects of a raw answer, and the answers that are one object in a
\* fenced code block: an opening marker with a language tag, a closing marker
ObjectsIn(text) == {text[i] : i \in {j \in 1..Len(text) : text[j].t = "object"}}
IsFenced(text, tags) ==
    /\ Len(Strip(text)) >= 3
    /\ Strip(text)[1] \in tags
    /\ Strip(text)[Len(Strip(text))] = Fence
    /\ Cardinality(ObjectsIn(text)) = 1

\* C19 as stated: a JSON object in a fenced code block with a language tag, of
\* whatever language, parses to what the object alone parses to.
C19_AnyFenceParsesAsUnfenced ==
    (parsed # Null /\ IsFenced(response_text, {FenceJson, FenceTag})) =>
        \A doc \in ObjectsIn(response_text) : parsed = parse_response(<<doc>>)

\* C19, amended: a JSON object in a fenced code block whose opening marker is
\* three backticks and json parses to what the object alone parses to, a
\* record or an error.
C19_JsonFenceParsesAsUnfenced ==
    (parsed # Null /\ IsFenced(response_text, {FenceJson})) =>
        \A doc \in ObjectsIn(response_text) : parsed = parse_response(<<doc>>)

C19_Witness ==
    /\ parsed # Null /\ parsed.ok
    /\ response_text = <<FenceJson, WS, FullObject, WS, Fence>>

\* request r asked for an analyzer that holds a Mistral client
NeedsMistralAnalyzer(r) ==
    /\ req[r] # Null
    /\ \/ req[r].endpoint = "upload_mistral_online"
       \/ req[r].endpoint = "upload_fallback" /\ settings.USE_LANGGRAPH_FALLBACK

\* C20: with an empty MISTRAL_API_KEY no Mistral client is ever constructed, and
\* a request that needs the Mistral analyzer or the orchestrator ends with the
\* RuntimeError of the constructor: no analyzer exists for it, nothing is stored
\* and no backend, the primary included, is invoked.
C20_EmptyApiKeyFailsConstruction ==
    settings.MISTRAL_API_KEY = "" =>
        /\ clients["mistral"] = 0
        /\ \A r \in Runs :
               NeedsMistralAnalyzer(r) =>
                   /\ req[r].analyzer = "none"
                   /\ pc[r] = "raised"
                   /\ outcome[r] = Raised(Exc("RuntimeError", MsgNoApiKey))
                   /\ calls[r] = <<>> /\ inflight[r] = {}
                   /\ file_path[r] = Null /\ analysis[r] = Null

C20_Witness ==
    /\ settings.MISTRAL_API_KEY = ""
    /\ \E r \in Runs :
           /\ req[r] # Null /\ req[r].endpoint = "upload_fallback"
           /\ settings.USE_LANGGRAPH_FALLBACK
           /\ outcome[r] = Raised(Exc("RuntimeError", MsgNoApiKey))

Caller(resp) == get_current_user(resp.token).value

\* the request was made by an authenticated user for a document of another user
IsForeignDocument(resp) ==
    /\ get_current_user(resp.token).ok
    /\ resp.document_id \in DOMAIN documents
    /\ documents[resp.document_id].user_id # Caller(resp)

\* C22 (as amended): the show and update operations succeed only for the owner
\* of the document; for a document of another user they answer 404, no row of
\* the documents table changes, and the owner can still read the document.
C22_ShowAndUpdateOnlyForOwner ==
    [][(response'.op \in {"show", "update"} /\ get_current_user(response'.token).ok) =>
          /\ response'.result.ok =>
                 /\ response'.document_id \in DOMAIN documents
                 /\ documents[response'.document_id].user_id = Caller(response')
          /\ IsForeignDocument(response') =>
                 /\ ~response'.result.ok
                 /\ response'.result.exc.status_code = HTTP_404_NOT_FOUND
                 /\ documents' = documents
                 /\ (get_document_by_id(response.document_id,
                                        documents[response.document_id].user_id))'
                        = Returned(documents[response'.document_id])]_vars

C22_Witness ==
    /\ response # Null
    /\ response.op = "update"
    /\ IsForeignDocument(response)
    /\ response.result = Raised(HTTPException(HTTP_404_NOT_FOUND, "document not found"))
    /\ get_document_by_id(response.document_id, documents[response.document_id].user_id).ok

\* C22 (as stated): whatever the operation, a document is read or updated by id
\* only by the user who owns it.
C22_OnlyOwnerReadsById ==
    (/\ response # Null
     /\ response.op \in {"show", "update", "supervisor/doc"}
     /\ response.result.ok) =>
        documents[response.document_id].user_id = Caller(response)


\* the account a login request names (the request names a registered email)
LoginAccount(resp) == users[CHOOSE i \in ByEmail(resp.email) : TRUE]

\* C23: login issues an access token only for an account that exists, whose
\* password matches, that is activated and that is not blocked; with the right
\* password, a login before activation answers 403, and a login for a blocked
\* account answers 403 and issues no token.
C23_LoginOnlyForActiveUnblockedAccount ==
    (response # Null /\ response.op = "login") =>
        /\ response.result.ok =>
               /\ ByEmail(response.email) # {}
               /\ verify_password(response.password, LoginAccount(response).password_hash)
               /\ LoginAccount(response).is_active
               /\ ~LoginAccount(response).is_blocked
        /\ (/\ ByEmail(response.email) # {}
            /\ verify_password(response.password, LoginAccount(response).password_hash)
            /\ (~LoginAccount(response).is_active \/ LoginAccount(response).is_blocked)) =>
               /\ ~response.result.ok
               /\ response.result.exc.status_code = HTTP_403_FORBIDDEN


\* the run's call of the Ollama analyzer has raised
OllamaRaised(r) == Len(results[r]) >= 1 /\ ~results[r][1].ok

\* C24: a DocumentParsingError of the Ollama analyzer leaves analyze_document as
\* it is and the Mistral analyzer is not invoked; an exception of any other
\* class is recorded in the state of the run and the run goes on to the call of
\* the Mistral analyzer.
C24_ParsingErrorReraisedOthersFallBack ==
    \A r \in Runs :
        OllamaRaised(r) =>
            IF results[r][1].exc.cls = "DocumentParsingError"
            THEN /\ analysis[r] = Raised(results[r][1].exc)
                 /\ calls[r] = <<"ollama">>
                 /\ pc[r] = "done"
            ELSE /\ Len(results[r]) = 1 =>
                        /\ state[StateSlot(r)].error = Str(results[r][1].exc.msg)
                        /\ state[StateSlot(r)].result = Null
                        /\ pc[r] \in {"mistral", "mistral_wait"}
                 /\ pc[r] # "mistral" => calls[r] = <<"ollama", "mistral">>

C24_Witness ==
    /\ results[1] = <<Raised(Exc("DocumentParsingError", MsgNoUsefulInfo))>>
    /\ analysis[1] = Raised(Exc("DocumentParsingError", MsgNoUsefulInfo))
    /\ results[2] = <<Raised(Exc("RuntimeError", "unexpected"))>>
    /\ calls[2] = <<"ollama", "mistral">>


\* C25: the fallback flag of a run is true only between the failure of the
\* primary call and the end of the secondary call; the secondary node never
\* sets it, so it is false when the run reaches the final node and when the run
\* is done, also after a failed secondary call.
C25_FlagFalseAfterSecondary ==
    \A r \in Runs :
        Truthy(state[StateSlot(r)].fallback_needed) => pc[r] \in {"mistral", "mistral_wait"}


\* the analyzer results of run r that are DocumentParsingErrors
ParsingErrorsOf(r) ==
    {i \in DOMAIN results[r] :
        ~results[r][i].ok /\ results[r][i].exc.cls = "DocumentParsingError"}

\* what run r ends with, told from its own analyzer results alone
EndOf(r) ==
    LET last == results[r][Len(results[r])]
    IN  IF ParsingErrorsOf(r) # {} THEN last
        ELSE IF last.ok THEN last
        ELSE Raised(Exc("LLMServiceError", MsgBothDown))

\* C26: of concurrent runs of one LangGraphPDFAnalyzer each has its own state:
\* the analyzers of a run are called with the text of that run, the result,
\* error and fallback flag in the state of a run come from the run's own
\* analyzer results, and the run ends with what its own results determine.
C26_RunsHaveTheirOwnState ==
    \A r \in Runs :
        LET st == state[StateSlot(r)]
            n == Len(results[r])
        IN  /\ pc[r] # "idle" => st.text = text_content[r].value
            /\ \A i \in DOMAIN results[r] :
                   results[r][i].ok => results[r][i].value.purpose = text_content[r].value
            /\ st.result \in {Null} \cup
                   {results[r][i].value : i \in {j \in DOMAIN results[r] : results[r][j].ok}}
            /\ st.error \in {Null} \cup
                   {Str(results[r][i].exc.msg) : i \in {j \in DOMAIN results[r] : ~results[r][j].ok}}
            /\ (n > 0 /\ ParsingErrorsOf(r) = {}) =>
                   st.fallback_needed = Bool(~results[r][n].ok)
            /\ pc[r] = "done" => analysis[r] = EndOf(r)

C26_Witness ==
    /\ text_content[1] = Returned(Str("invoice A"))
    /\ text_content[2] = Returned(Str("invoice B"))
    /\ inflight[1] = {"mistral"}
    /\ state[StateSlot(1)].error = Str(MsgOllamaDown)
    /\ pc[2] = "done"
    /\ analysis[2].ok
    /\ analysis[2].value.purpose = Str("invoice B")


\* C27: in every record _parse_response returns, document_date is null or a
\* datetime and amount is null or a Decimal, whatever JSON value (string, empty
\* string, number, boolean) the answer held in those fields.
C27_DateAndAmountAreTyped ==
    (parsed # Null /\ parsed.ok) =>
        /\ Get(parsed.value, "document_date").t \in {"null", "datetime"}
        /\ Get(parsed.value, "amount").t \in {"null", "Decimal"}


\* the operations that take a token, and the type of token each is meant for
TokenOps == {"my_info", "register-confirm", "password-reset-confirm"}
PurposeOf(op) ==
    CASE op = "my_info"                -> "access"
      [] op = "register-confirm"       -> "registration"
      [] op = "password-reset-confirm" -> "reset"

\* C28: a token is accepted only for the purpose it was issued for: an endpoint
\* behind get_current_user accepts type access only, the registration
\* confirmation type registration only, the password-reset confirmation type
\* reset only; a validly signed token of another type is rejected and no
\* account, token or document changes.
C28_TokenAcceptedOnlyForItsPurpose ==
    [][(/\ response'.op \in TokenOps
        /\ response'.token # NoToken
        /\ response'.token.signed
        /\ response'.token.type # PurposeOf(response'.op)) =>
           /\ ~response'.result.ok
           /\ response'.result.exc.status_code \in {HTTP_400_BAD_REQUEST, HTTP_401_UNAUTHORIZED}
           /\ users' = users
           /\ issued' = issued
           /\ documents' = documents]_vars

C28_Witness ==
    /\ response # Null
    /\ response.op = "my_info"
    /\ response.token = create_password_reset_token(1)
    /\ users[1].is_active /\ ~users[1].is_blocked
    /\ response.result = Raised(HTTPException(HTTP_401_UNAUTHORIZED, "token of another type"))


\* C29: when process_document has raised the save error (HTTP 500), whether the
\* save failed before or after the destination file was opened and chunks were
\* written, no file is left at the destination path.
C29_FailedSaveLeavesNoFile ==
    \A r \in Runs :
        outcome[r] = Raised(HTTPException(HTTP_500_INTERNAL_SERVER_ERROR, MsgSaveError)) =>
            file_path[r] \notin fs


\* C30: a run that was cancelled while it waited for the text extraction or for
\* a backend call, its file saved and no database row committed, has left no
\* file at its path.
C30_CancelledRunLeavesNoFile ==
    \A r \in Runs : pc[r] = "cancelled" => file_path[r] \notin fs

====
